---- MODULE Spec2Model ----
(***************************************************************************)
(* Model of gen_cmake_list.py: the tree of directories and files           *)
(* (cmake_tree_links), the naming of directories (to_name), the ordered    *)
(* serialization (to_cmake_string) and the assembly of the document        *)
(* (cmake_text_of_files_by_keystem).                                       *)
(*                                                                         *)
(* A string is a sequence of characters (one-character strings); the       *)
(* literals "set(", "${" and the banner are kept as one token each, since  *)
(* no path of the model contains their characters.  A pathlib path is the  *)
(* tuple of its parts, as Path.parts gives it: the empty tuple is          *)
(* Path('.'), and an absolute path starts with the part "/".                *)
(***************************************************************************)
EXTENDS Integers, Sequences, FiniteSets, TLC

VARIABLES data, hist, last, exc, ret, files_by_keystem, doc, cmp_args, cmp_ret

vars == <<data, hist, last, exc, ret, files_by_keystem, doc, cmp_args, cmp_ret>>

-----------------------------------------------------------------------------
(* Bounds of the model *)

\* longest relative path (in parts) given to add_file
MaxDepth == 3

\* most successful add_file calls on one tree
MaxFiles == 2

\* most files in all the lists of one mapping from keystem to files
MaxDocFiles == 2

-----------------------------------------------------------------------------
(* Characters, strings and paths *)

NL == "\n"

TAB == "\t"

SLASH == "/"

None == "None"

\* code points of the characters the model uses (str comparison is by code point)
Ord(c) ==
  CASE c = "/" -> 47
    [] c = "A" -> 65
    [] c = "K" -> 75
    [] c = "N" -> 78
    [] c = "T" -> 84
    [] c = "_" -> 95
    [] c = "a" -> 97

\* str.upper(), on the characters of the model
Upper(c) == IF c = "a" THEN "A" ELSE c

\* str < str : lexicographic by code point, a proper prefix first
RECURSIVE StrLess(_, _)
StrLess(s, t) ==
  IF t = <<>> THEN FALSE
  ELSE IF s = <<>> THEN TRUE
  ELSE IF s[1] # t[1] THEN Ord(s[1]) < Ord(t[1])
  ELSE StrLess(Tail(s), Tail(t))

\* PurePath.__lt__ : comparison of the lists of parts, each part as a str
RECURSIVE PathLess(_, _)
PathLess(p, q) ==
  IF q = <<>> THEN FALSE
  ELSE IF p = <<>> THEN TRUE
  ELSE IF p[1] # q[1] THEN StrLess(p[1], q[1])
  ELSE PathLess(Tail(p), Tail(q))

\* PurePath.is_absolute()
is_absolute(p) == p # <<>> /\ p[1] = <<SLASH>>

\* PurePath.parent (of the root "/" and of the empty path: the path itself)
parent(p) ==
  IF p = <<>> \/ p = <<<<SLASH>>>> THEN p ELSE SubSeq(p, 1, Len(p) - 1)

\* str(path) of a relative path: the parts joined by "/", "." when empty
RECURSIVE JoinParts(_)
JoinParts(p) ==
  IF p = <<>> THEN <<>>
  ELSE IF Len(p) = 1 THEN p[1]
  ELSE p[1] \o <<SLASH>> \o JoinParts(Tail(p))

str(p) == IF p = <<>> THEN <<".">> ELSE JoinParts(p)

\* s.upper().replace('/', '_')
UpperReplace(s) ==
  [i \in 1..Len(s) |-> IF Upper(s[i]) = SLASH THEN "_" ELSE Upper(s[i])]

\* the segments paths are made of
Segs == {<<"a">>, <<"A", "_", "a">>}

RECURSIVE SeqsUpTo(_, _)
SeqsUpTo(S, n) ==
  IF n = 0 THEN {<<>>}
  ELSE LET R == SeqsUpTo(S, n - 1)
       IN  R \cup {Append(r, x) : r \in {r \in R : Len(r) = n - 1}, x \in S}

\* the non-empty relative paths
ValidPaths == SeqsUpTo(Segs, MaxDepth) \ {<<>>}

\* the paths add_file rejects: the empty path and absolute ones
BadPaths == {<<>>, <<<<SLASH>>>>, <<<<SLASH>>, <<"a">>>>}

Keystems == {<<"N">>, <<"T">>}

-----------------------------------------------------------------------------
(* cmake_tree_nonleaf_node and cmake_tree_links                            *)
(*                                                                         *)
(* self.data is a dict of dicts; a dict keeps its keys in the order of     *)
(* their first insertion, so it is a sequence without duplicates.  A child *)
(* is a record: node = TRUE for a cmake_tree_nonleaf_node, FALSE for a raw *)
(* Path.  A node and a raw Path are never the same dict key: their hashes  *)
(* differ (__hash__ hashes the pair ('ctnn', path)).                       *)

Node(p) == [node |-> TRUE, path |-> p]

Leaf(p) == [node |-> FALSE, path |-> p]

\* cmake_tree_nonleaf_node.__eq__ and Path.__eq__, as the dict uses them
SameEntry(x, y) == x.node = y.node /\ x.path = y.path

HasKey(d, k) == \E i \in 1..Len(d) : d[i].key = k

IndexOfKey(d, k) == CHOOSE i \in 1..Len(d) : d[i].key = k

HasChild(cs, e) == \E i \in 1..Len(cs) : SameEntry(cs[i], e)

\* variant: the children kept as a list, every insertion appended
InsertAlways(d, k, e) ==
  IF HasKey(d, k)
  THEN [d EXCEPT ![IndexOfKey(d, k)].children = Append(@, e)]
  ELSE Append(d, [key |-> k, children |-> <<e>>])

\* variant: the dict of children assigned anew at each insertion
InsertReplace(d, k, e) ==
  IF HasKey(d, k)
  THEN [d EXCEPT ![IndexOfKey(d, k)].children = <<e>>]
  ELSE Append(d, [key |-> k, children |-> <<e>>])

\* self.data[ prm_nonleaf_node ][ prm_entry ] = 1
_insert_entry_of_nonleaf_node(d, k, e) ==
  IF HasKey(d, k)
  THEN IF HasChild(d[IndexOfKey(d, k)].children, e)
       THEN d
       ELSE [d EXCEPT ![IndexOfKey(d, k)].children = Append(@, e)]
  ELSE Append(d, [key |-> k, children |-> <<e>>])

\* variant: the file itself wrapped as a node
EntryAlwaysNode(file, b) == Node(b)

\* variant: every entry left as a raw path
EntryAlwaysLeaf(file, b) == Leaf(b)

\* entry = path_backstepper if path_backstepper == prm_file else node
EntryOf(file, b) == IF b = file THEN Leaf(b) ELSE Node(b)

\* variant: the loop stops one level below the root
RECURSIVE BackstepNoRoot(_, _, _)
BackstepNoRoot(d, file, b) ==
  IF Len(b) <= 1 THEN d
  ELSE BackstepNoRoot(
         _insert_entry_of_nonleaf_node(d, parent(b), EntryOf(file, b)),
         file, parent(b))

\* the while loop of add_file
RECURSIVE Backstep(_, _, _)
Backstep(d, file, b) ==
  IF b = <<>> THEN d
  ELSE Backstep(_insert_entry_of_nonleaf_node(d, parent(b), EntryOf(file, b)),
                file, parent(b))

\* variant: the path tested after the first insertion
add_file_late_check(d, file) ==
  IF file = <<>> \/ is_absolute(file)
  THEN [raised |-> TRUE,
        data |-> _insert_entry_of_nonleaf_node(d, parent(file), Leaf(file))]
  ELSE [raised |-> FALSE, data |-> Backstep(d, file, file)]

\* add_file: the exception, or the tree after the call
add_file(d, file) ==
  IF file = <<>> \/ is_absolute(file)
  THEN [raised |-> TRUE, data |-> d]
  ELSE [raised |-> FALSE, data |-> Backstep(d, file, file)]

\* cmake_tree_nonleaf_node.to_name
to_name(p, keystem) ==
  IF is_absolute(p) THEN <<"Exception">>
  ELSE IF p = <<>> THEN keystem
  ELSE keystem \o <<"_">> \o UpperReplace(str(p))

-----------------------------------------------------------------------------
(* sorted() : stable; an element goes before the first one it is less than *)
(* (what the binary insertion of list.sort gives on these short lists when *)
(* the comparison is a weak order).                                        *)

\* variant: the comparison turned round
ChildGreater(x, y) == PathLess(y.path, x.path)

\* x < y between children: __lt__ of the left operand, or, when Path.__lt__
\* returns NotImplemented for a node on the right, __gt__ of the right one
\* (self.path < other.path, self.path < other, other.path > self): in each
\* case the comparison of the two underlying paths
ChildLess(x, y) == PathLess(x.path, y.path)

RECURSIVE InsertChild(_, _)
InsertChild(s, x) ==
  IF s = <<>> THEN <<x>>
  ELSE IF ChildLess(x, s[1]) THEN <<x>> \o s
  ELSE <<s[1]>> \o InsertChild(Tail(s), x)

RECURSIVE SortedChildren(_)
SortedChildren(cs) ==
  IF cs = <<>> THEN <<>>
  ELSE InsertChild(SortedChildren(SubSeq(cs, 1, Len(cs) - 1)), cs[Len(cs)])

Min(a, b) == IF a < b THEN a ELSE b

B2I(b) == IF b THEN 1 ELSE 0

\* variant: the plain comparison of the paths
my_key_cmp_plain(l, r) == B2I(PathLess(r, l)) - B2I(PathLess(l, r))

\* my_key_cmp of to_cmake_string
my_key_cmp(l, r) ==
  LET min_num_parts == Min(Len(l), Len(r))
  IN  IF SubSeq(l, 1, min_num_parts) = SubSeq(r, 1, min_num_parts)
      THEN B2I(Len(l) < Len(r)) - B2I(Len(l) > Len(r))
      ELSE B2I(PathLess(r, l)) - B2I(PathLess(l, r))

RECURSIVE InsertKey(_, _)
InsertKey(s, x) ==
  IF s = <<>> THEN <<x>>
  ELSE IF my_key_cmp(x, s[1]) < 0 THEN <<x>> \o s
  ELSE <<s[1]>> \o InsertKey(Tail(s), x)

RECURSIVE SortKeys(_)
SortKeys(ks) ==
  IF ks = <<>> THEN <<>>
  ELSE InsertKey(SortKeys(SubSeq(ks, 1, Len(ks) - 1)), ks[Len(ks)])

KeysOf(d) == [i \in 1..Len(d) |-> d[i].key]

\* sorted_keys = sorted( self.data, key=cmp_to_key( my_key_cmp ) )
sorted_keys(d) == SortKeys(KeysOf(d))

\* cmake_str_of_leaf
cmake_str_of_leaf(keystem, x) ==
  IF x.node THEN <<"${">> \o to_name(x.path, keystem) \o <<"}">>
  ELSE str(x.path)

RECURSIVE ChildLines(_, _)
ChildLines(keystem, cs) ==
  IF cs = <<>> THEN <<>>
  ELSE <<NL, TAB, TAB>> \o cmake_str_of_leaf(keystem, cs[1])
         \o ChildLines(keystem, Tail(cs))

\* cmake_string_for_nonleaf_node
cmake_string_for_nonleaf_node(d, keystem, k) ==
  <<"set(", NL, TAB>> \o to_name(k, keystem)
    \o ChildLines(keystem, SortedChildren(d[IndexOfKey(d, k)].children))
    \o <<NL, ")">>

\* sep.join(parts)
RECURSIVE Join(_, _)
Join(sep, parts) ==
  IF parts = <<>> THEN <<>>
  ELSE IF Len(parts) = 1 THEN parts[1]
  ELSE parts[1] \o sep \o Join(sep, Tail(parts))

\* the strings of the blocks, in the order of sorted_keys
BlockStrings(d, keystem) ==
  LET sk == sorted_keys(d)
  IN  [i \in 1..Len(sk) |-> cmake_string_for_nonleaf_node(d, keystem, sk[i])]

\* to_cmake_string
to_cmake_string(d, keystem) == Join(<<NL, NL>>, BlockStrings(d, keystem))

-----------------------------------------------------------------------------
(* The functions of the module *)

RECURSIVE AddFiles(_, _)
\* the for loop of cmake_set_string_of_keystem_and_files, from tree d on
AddFiles(d, files) ==
  IF files = <<>> THEN [raised |-> FALSE, data |-> d]
  ELSE IF is_absolute(files[1]) THEN [raised |-> TRUE, data |-> d]
  ELSE LET r == add_file(d, files[1])
       IN  IF r.raised THEN r ELSE AddFiles(r.data, Tail(files))

\* cmake_set_string_of_keystem_and_files: the exception, or the text
cmake_set_string_of_keystem_and_files(keystem, files) ==
  LET r == AddFiles(<<>>, files)
  IN  IF r.raised THEN [raised |-> TRUE, text |-> None]
      ELSE [raised |-> FALSE, text |-> to_cmake_string(r.data, keystem)]

autogen_warning_str == <<"##### DON'T EDIT THIS FILE - IT'S AUTO-GENERATED #####">>

RECURSIVE InsertStr(_, _)
InsertStr(s, x) ==
  IF s = <<>> THEN <<x>>
  ELSE IF StrLess(x, s[1]) THEN <<x>> \o s
  ELSE <<s[1]>> \o InsertStr(Tail(s), x)

\* variant: the keys taken in the order of the dict
KeysUnsorted(ks) == ks

RECURSIVE SortStrs(_)
\* sorted( prm_files_by_keystem.keys() )
SortStrs(ks) ==
  IF ks = <<>> THEN <<>>
  ELSE InsertStr(SortStrs(SubSeq(ks, 1, Len(ks) - 1)), ks[Len(ks)])

\* prm_files_by_keystem[ x ] : the mapping is a sequence of (keystem, files)
\* entries in the order of the dict, the keystems distinct
FilesOf(fbk, k) == fbk[CHOOSE i \in 1..Len(fbk) : fbk[i].keystem = k].files

RECURSIVE KeystemTexts(_, _)
\* map( lambda x: "\n" + cmake_set_string_of_keystem_and_files( x, ... ), sorted_keys ),
\* consumed by join from left to right: the first exception ends it
KeystemTexts(fbk, sk) ==
  IF sk = <<>> THEN [raised |-> FALSE, texts |-> <<>>]
  ELSE LET r == cmake_set_string_of_keystem_and_files(sk[1], FilesOf(fbk, sk[1]))
           rest == KeystemTexts(fbk, Tail(sk))
       IN  IF r.raised THEN [raised |-> TRUE, texts |-> <<>>]
           ELSE IF rest.raised THEN rest
           ELSE [raised |-> FALSE, texts |-> <<<<NL>> \o r.text>> \o rest.texts]

\* cmake_text_of_files_by_keystem: the exception, or the document
cmake_text_of_files_by_keystem(fbk) ==
  LET sk == SortStrs([i \in 1..Len(fbk) |-> fbk[i].keystem])
      r == KeystemTexts(fbk, sk)
  IN  IF r.raised
      THEN [raised |-> TRUE, text |-> None]
      ELSE [raised |-> FALSE,
            text |-> autogen_warning_str \o <<NL>>
                       \o Join(<<NL>>, r.texts)
                       \o <<NL, NL>> \o autogen_warning_str \o <<NL>>]

-----------------------------------------------------------------------------
(* Specification of one tree: add_file and to_cmake_string called in any   *)
(* order on one cmake_tree_links.  hist is the list of the files added     *)
(* without an exception; last, exc and ret are the last call, whether it   *)
(* raised, and what it returned.                                           *)

AllPaths == ValidPaths \cup BadPaths

InitTree ==
  /\ data = <<>>
  /\ hist = <<>>
  /\ last = [op |-> "init", keystem |-> <<>>]
  /\ exc = FALSE
  /\ ret = None

InitDoc ==
  /\ files_by_keystem = <<>>
  /\ doc = [raised |-> FALSE, text |-> None]

\* no call of my_key_cmp under way
CmpIdle ==
  /\ cmp_args = <<>>
  /\ cmp_ret = <<>>

Init == InitTree /\ InitDoc /\ CmpIdle

\* the calls follow cmake_set_string_of_keystem_and_files: files are added until
\* one raises (the exception ends the run) or the tree is serialized and returned
Building == last.op \in {"init", "add_file"} /\ ~exc

AddFile(p) ==
  /\ Building
  /\ add_file(data, p).raised \/ Len(hist) < MaxFiles
  /\ LET r == add_file(data, p)
     IN  /\ data' = r.data
         /\ exc' = r.raised
         /\ hist' = IF r.raised THEN hist ELSE Append(hist, p)
  /\ last' = [op |-> "add_file", keystem |-> <<>>]
  /\ ret' = None
  /\ UNCHANGED <<files_by_keystem, doc, cmp_args, cmp_ret>>

ToCmakeString(keystem) ==
  /\ Building
  /\ ret' = to_cmake_string(data, keystem)
  /\ last' = [op |-> "to_cmake_string", keystem |-> keystem]
  /\ exc' = FALSE
  /\ UNCHANGED <<data, hist, files_by_keystem, doc, cmp_args, cmp_ret>>

Next ==
  \/ \E p \in AllPaths : AddFile(p)
  \/ \E k \in Keystems : ToCmakeString(k)

Spec == Init /\ [][Next]_vars

-----------------------------------------------------------------------------
(* Specification of the document: a caller fills a mapping from keystem to *)
(* list of files, then calls cmake_text_of_files_by_keystem once.          *)

DocKeystems == {<<"K">>, <<"N">>, <<"T">>}

\* the files of the mappings: two relative paths, the empty path, an absolute one
DocPaths == {<<<<"a">>>>, <<<<"a">>, <<"a">>>>, <<>>, <<<<SLASH>>, <<"a">>>>}

RECURSIVE TotalFiles(_)
TotalFiles(fbk) ==
  IF fbk = <<>> THEN 0 ELSE Len(fbk[1].files) + TotalFiles(Tail(fbk))

Generated == last.op = "cmake_text_of_files_by_keystem"

AddKeystem(k) ==
  /\ ~Generated
  /\ \A i \in 1..Len(files_by_keystem) : files_by_keystem[i].keystem # k
  /\ files_by_keystem' = Append(files_by_keystem, [keystem |-> k, files |-> <<>>])
  /\ UNCHANGED <<data, hist, last, exc, ret, doc, cmp_args, cmp_ret>>

AppendFile(i, p) ==
  /\ ~Generated
  /\ i \in 1..Len(files_by_keystem)
  /\ TotalFiles(files_by_keystem) < MaxDocFiles
  /\ files_by_keystem' = [files_by_keystem EXCEPT ![i].files = Append(@, p)]
  /\ UNCHANGED <<data, hist, last, exc, ret, doc, cmp_args, cmp_ret>>

Generate ==
  /\ ~Generated
  /\ doc' = cmake_text_of_files_by_keystem(files_by_keystem)
  /\ last' = [op |-> "cmake_text_of_files_by_keystem", keystem |-> <<>>]
  /\ UNCHANGED <<data, hist, exc, ret, files_by_keystem, cmp_args, cmp_ret>>

NextDoc ==
  \/ \E k \in DocKeystems : AddKeystem(k)
  \/ \E i \in 1..Cardinality(DocKeystems), p \in DocPaths : AppendFile(i, p)
  \/ Generate

SpecDoc == Init /\ [][NextDoc]_vars

-----------------------------------------------------------------------------
(* Specification of the comparison: my_key_cmp, and the sort that uses it, *)
(* applied to three keys of a tree.                                        *)

\* the relative paths of directories, the root among them
Dirs == SeqsUpTo(Segs, MaxDepth)

InitCmp ==
  /\ cmp_args \in {<<l, r, m>> : l \in Dirs, r \in Dirs, m \in Dirs}
  /\ cmp_ret = <<>>

Compare ==
  /\ cmp_args # <<>>
  /\ cmp_ret = <<>>
  /\ cmp_ret' = [lr |-> my_key_cmp(cmp_args[1], cmp_args[2]),
                 rl |-> my_key_cmp(cmp_args[2], cmp_args[1]),
                 rm |-> my_key_cmp(cmp_args[2], cmp_args[3]),
                 lm |-> my_key_cmp(cmp_args[1], cmp_args[3]),
                 sorted |-> SortKeys(cmp_args)]
  /\ UNCHANGED <<data, hist, last, exc, ret, files_by_keystem, doc, cmp_args>>

NextCmp == Compare

InitCmpRun == InitTree /\ InitDoc /\ InitCmp

SpecCmp == InitCmpRun /\ [][NextCmp]_vars

-----------------------------------------------------------------------------
(* Reading a text back: its lines, its blocks, what a block declares and   *)
(* what it refers to.                                                      *)

RECURSIVE SplitLines(_)
\* text.split("\n")
SplitLines(t) ==
  IF \A i \in 1..Len(t) : t[i] # NL THEN <<t>>
  ELSE LET n == CHOOSE i \in 1..Len(t) :
                  t[i] = NL /\ \A j \in 1..(i - 1) : t[j] # NL
       IN  <<SubSeq(t, 1, n - 1)>> \o SplitLines(SubSeq(t, n + 1, Len(t)))

RECURSIVE LinesEqualTo(_, _, _)
\* the indexes, ascending and from i on, of the lines equal to l
LinesEqualTo(lines, l, i) ==
  IF i > Len(lines) THEN <<>>
  ELSE (IF lines[i] = l THEN <<i>> ELSE <<>>) \o LinesEqualTo(lines, l, i + 1)

\* a block goes from a line "set(" to the next line ")"
BlockStarts(lines) == LinesEqualTo(lines, <<"set(">>, 1)

BlockEnds(lines) == LinesEqualTo(lines, <<")">>, 1)

WellFormedBlocks(lines) ==
  LET st == BlockStarts(lines)
      en == BlockEnds(lines)
  IN  /\ Len(st) = Len(en)
      /\ \A i \in 1..Len(st) : st[i] + 1 < en[i]
      /\ \A i \in 1..(Len(st) - 1) : en[i] < st[i + 1]

\* the identifier declared by the block that starts at line s: its second
\* line, without the tab
Declared(lines, s) == Tail(lines[s + 1])

IsReference(l) == Len(l) >= 5 /\ l[3] = "${" /\ l[Len(l)] = "}"

\* the identifiers the block of lines s..e refers to as ${identifier}
References(lines, s, e) ==
  {SubSeq(lines[j], 4, Len(lines[j]) - 1) :
     j \in {j \in (s + 2)..(e - 1) : IsReference(lines[j])}}

IsProperPrefix(p, q) == Len(p) < Len(q) /\ SubSeq(q, 1, Len(p)) = p

Serialized == last.op = "to_cmake_string"

\* the text has one block for each of sorted_keys, in that order
BlocksFollowKeys(lines, sk, keystem) ==
  LET st == BlockStarts(lines)
  IN  /\ WellFormedBlocks(lines)
      /\ Len(st) = Len(sk)
      /\ \A i \in 1..Len(sk) : Declared(lines, st[i]) = to_name(sk[i], keystem)

-----------------------------------------------------------------------------
(* Claims *)

\* C1: in the block sequence of to_cmake_string the block of a directory comes
\* strictly before the block of each of its proper ancestors, and the block of
\* the root (the empty path) is the last one.
C1_DescendantsFirst ==
  Serialized =>
    LET lines == SplitLines(ret)
        sk == sorted_keys(data)
    IN  /\ BlocksFollowKeys(lines, sk, last.keystem)
        /\ \A i, j \in 1..Len(sk) : IsProperPrefix(sk[j], sk[i]) => i < j
        /\ sk # <<>> => sk[Len(sk)] = <<>>

\* a serialized tree with a directory two levels down and an unrelated one
C1_Witness ==
  /\ Serialized
  /\ \E i, j, k \in 1..Len(data) :
       /\ Len(data[i].key) = 2
       /\ IsProperPrefix(data[j].key, data[i].key) /\ Len(data[j].key) = 1
       /\ Len(data[k].key) = 1 /\ data[k].key # data[j].key

\* C2: when the identifier a block A declares occurs as a ${identifier}
\* reference inside a block B, A is strictly earlier in the text than B.
C2_DeclaredBeforeReferenced ==
  Serialized =>
    LET lines == SplitLines(ret)
        st == BlockStarts(lines)
        en == BlockEnds(lines)
    IN  \A a, b \in 1..Len(st) :
          Declared(lines, st[a]) \in References(lines, st[b], en[b]) => a < b

\* C3: to_name gives two distinct directories of one tree different
\* identifiers, under any one keystem.
C3_ToNameInjective ==
  \A i, j \in 1..Len(data) : \A k \in Keystems :
    data[i].key # data[j].key => to_name(data[i].key, k) # to_name(data[j].key, k)

\* two directories whose identifiers are the same text
C3_Collision ==
  \E i, j \in 1..Len(data) : \E k \in Keystems :
    data[i].key # data[j].key /\ to_name(data[i].key, k) = to_name(data[j].key, k)

\* the directories that occur as a child (a node) of some key
ChildNodes(d) ==
  UNION {{d[i].children[j].path :
            j \in {j \in 1..Len(d[i].children) : d[i].children[j].node}} :
         i \in 1..Len(d)}

\* C4: every directory node that is a child of some key is itself a key, and
\* the serialization holds the block of that directory exactly once.
C4_ChildNodesAreKeys ==
  /\ \A D \in ChildNodes(data) : HasKey(data, D)
  /\ Serialized =>
       LET lines == SplitLines(ret)
           sk == sorted_keys(data)
       IN  /\ BlocksFollowKeys(lines, sk, last.keystem)
           /\ \A D \in ChildNodes(data) :
                Cardinality({i \in 1..Len(sk) : sk[i] = D}) = 1

\* a serialized tree in which a directory is the child of a directory
C4_Witness ==
  /\ Serialized
  /\ \E D \in ChildNodes(data) : Len(D) = 2

\* the orderings of the elements of the list h
Orderings(h) ==
  {[i \in 1..Len(h) |-> h[f[i]]] :
     f \in {g \in [1..Len(h) -> 1..Len(h)] :
              \A i, j \in 1..Len(h) : i # j => g[i] # g[j]}}

NoDuplicates(h) == \A i, j \in 1..Len(h) : i # j => h[i] # h[j]

\* C5: the text to_cmake_string returns does not depend on the order of the
\* add_file calls: every permutation of one set of paths gives the same text.
C5_OrderIndependentText ==
  (Serialized /\ NoDuplicates(hist)) =>
    \A h \in Orderings(hist) :
      cmake_set_string_of_keystem_and_files(last.keystem, h).text = ret

\* list h with path p put in after its first i elements
InsertAt(h, i, p) == SubSeq(h, 1, i) \o <<p>> \o SubSeq(h, i + 1, Len(h))

\* C6: add_file raises on an empty or absolute path and leaves the tree as it
\* was (so the tree is always the one the accepted files alone build), and
\* the two functions over file lists raise and return no text when the list
\* holds such a path, wherever it stands in the list and whether its keystem
\* is the first or the last of the mapping.
C6_RejectionWithoutEffect ==
  /\ data = AddFiles(<<>>, hist).data
  /\ exc => ret = None
  /\ \A p \in BadPaths : add_file(data, p) = [raised |-> TRUE, data |-> data]
  /\ Building =>
       \A p \in BadPaths : \A i \in 0..Len(hist) : \A k \in Keystems :
         LET files == InsertAt(hist, i, p)
             sound == SubSeq(hist, 1, Min(1, Len(hist)))
             none == [raised |-> TRUE, text |-> None]
         IN  /\ cmake_set_string_of_keystem_and_files(k, files) = none
             /\ cmake_text_of_files_by_keystem(
                  <<[keystem |-> k, files |-> files],
                    [keystem |-> k \o <<"_">>, files |-> sound]>>) = none
             /\ cmake_text_of_files_by_keystem(
                  <<[keystem |-> k \o <<"_">>, files |-> sound],
                    [keystem |-> k, files |-> files]>>) = none

\* add_file has raised on a tree that already holds files
C6_Witness == exc /\ last.op = "add_file" /\ Len(data) >= 2

\* the directories above a file, from its parent up to the root
AncestorsOf(p) == {SubSeq(p, 1, n) : n \in 0..(Len(p) - 1)}

AncestorsOfAll(h) == UNION {AncestorsOf(h[i]) : i \in 1..Len(h)}

\* C7: the blocks are exactly those of the directories that lie above an added
\* file, one block each: the root has one as soon as a file is added, and no
\* file gives no block at all.
C7_BlocksAreAncestors ==
  Serialized =>
    LET lines == SplitLines(ret)
        sk == sorted_keys(data)
    IN  /\ BlocksFollowKeys(lines, sk, last.keystem)
        /\ {sk[i] : i \in 1..Len(sk)} = AncestorsOfAll(hist)
        /\ Len(sk) = Cardinality(AncestorsOfAll(hist))
        /\ hist # <<>> => \E i \in 1..Len(sk) : sk[i] = <<>>
        /\ hist = <<>> => ret = <<>>

\* a serialized tree of two files in different directories
C7_Witness ==
  /\ Serialized
  /\ Len(hist) = 2
  /\ parent(hist[1]) # parent(hist[2])
  /\ Cardinality(AncestorsOfAll(hist)) >= 3

\* the tree as a mapping from directory to the set of its children
AsMap(d) ==
  {<<d[i].key, {d[i].children[j] : j \in 1..Len(d[i].children)}>> :
     i \in 1..Len(d)}

\* C8: add_file commutes on the tree read as a mapping from directory to set
\* of children: adding q then p gives what adding p then q gives, so the
\* tree is a function of the set of added paths.
C8_AddFileCommutes ==
  (last.op = "add_file" /\ ~exc) =>
    LET d0 == AddFiles(<<>>, SubSeq(hist, 1, Len(hist) - 1)).data
        q == hist[Len(hist)]
    IN  /\ \A p \in ValidPaths :
             AsMap(add_file(data, p).data)
               = AsMap(add_file(add_file(d0, p).data, q).data)
        /\ \A h \in Orderings(hist) :
             AsMap(AddFiles(<<>>, h).data) = AsMap(data)

\* two different files added, the second into a directory the first made
C8_Witness ==
  /\ last.op = "add_file" /\ ~exc
  /\ Len(hist) = 2 /\ hist[1] # hist[2]
  /\ \E D \in AncestorsOf(hist[1]) \cap AncestorsOf(hist[2]) : D # <<>>

\* C9: add_file is idempotent: adding a file already added once more leaves
\* the tree as it is, and no key and no child occurs twice.
C9_AddFileIdempotent ==
  /\ NoDuplicates(KeysOf(data))
  /\ \A i \in 1..Len(data) : NoDuplicates(data[i].children)
  /\ \A i \in 1..Len(hist) :
       add_file(data, hist[i]) = [raised |-> FALSE, data |-> data]

\* the same file added twice
C9_Witness ==
  /\ last.op = "add_file" /\ ~exc
  /\ Len(hist) = 2 /\ hist[1] = hist[2] /\ Len(hist[1]) >= 2

\* C10: in the document two consecutive blocks, of one keystem or of two, are
\* separated by one blank line, whatever the mapping (a keystem may have no
\* file), and the document starts and ends with the banner line.
C10_OneBlankLineBetweenBlocks ==
  (Generated /\ ~doc.raised) =>
    LET lines == SplitLines(doc.text)
        st == BlockStarts(lines)
        en == BlockEnds(lines)
    IN  /\ WellFormedBlocks(lines)
        /\ \A i \in 1..(Len(st) - 1) :
             st[i + 1] = en[i] + 2 /\ lines[en[i] + 1] = <<>>
        /\ lines[1] = autogen_warning_str
        /\ lines[Len(lines) - 1] = autogen_warning_str
        /\ lines[Len(lines)] = <<>>

\* C11: the keystems of the document come in ascending order of their
\* names, whatever the order of the keys in the mapping: all blocks of a
\* keystem precede all blocks of a greater one, so each keystem's blocks
\* are contiguous; the keystems with blocks are those with a file.
C11_KeystemsInSortedOrder ==
  (Generated /\ ~doc.raised) =>
    LET lines == SplitLines(doc.text)
        st == BlockStarts(lines)
        ks == [i \in 1..Len(st) |-> SubSeq(Declared(lines, st[i]), 1, 1)]
    IN  /\ \A i, j \in 1..Len(st) : i < j => ~StrLess(ks[j], ks[i])
        /\ {ks[i] : i \in 1..Len(st)}
             = {files_by_keystem[i].keystem :
                  i \in {i \in 1..Len(files_by_keystem) :
                           files_by_keystem[i].files # <<>>}}

\* a document made from a mapping whose keys are not in ascending order,
\* two of them with files
C11_Witness ==
  /\ Generated /\ ~doc.raised
  /\ \E i, j \in 1..Len(files_by_keystem) :
       /\ i < j
       /\ StrLess(files_by_keystem[j].keystem, files_by_keystem[i].keystem)
       /\ files_by_keystem[i].files # <<>>
       /\ files_by_keystem[j].files # <<>>

\* the children directory D has after the files of list h were added: the
\* files of h that lie in D, as raw paths, and the directories one level
\* below D that lie above a file of h, as nodes
ExpectedChildren(D, h) ==
  {Leaf(h[i]) : i \in {i \in 1..Len(h) : parent(h[i]) = D}}
    \cup {Node(q) : q \in {q \in AncestorsOfAll(h) : q # <<>> /\ parent(q) = D}}

ChildSet(d, i) == {d[i].children[j] : j \in 1..Len(d[i].children)}

\* C12: the child set of every key D is exactly the added files whose parent
\* is D, as raw paths, with the nodes of the directories one level below D
\* that lie above an added file; so the parent of every child is D, and
\* every added file is a raw-path child under exactly one key.
C12_ChildSets ==
  /\ \A i \in 1..Len(data) :
       /\ ChildSet(data, i) = ExpectedChildren(data[i].key, hist)
       /\ \A c \in ChildSet(data, i) :
            c.path # <<>> /\ parent(c.path) = data[i].key
  /\ \A n \in 1..Len(hist) :
       Cardinality({i \in 1..Len(data) : Leaf(hist[n]) \in ChildSet(data, i)}) = 1

\* a directory that holds a file and a subdirectory
C12_Witness ==
  /\ last.op = "add_file" /\ ~exc
  /\ \E i \in 1..Len(data) : \E c1, c2 \in ChildSet(data, i) :
       c1.node /\ ~c2.node /\ c1.path # c2.path

\* the line of a child in a block: the path as it is written for a file,
\* the identifier of the directory inside ${ } for a subdirectory
ChildLine(c, keystem) ==
  <<TAB, TAB>> \o (IF c.node
                    THEN <<"${">> \o to_name(c.path, keystem) \o <<"}">>
                    ELSE JoinParts(c.path))

\* C13: in each block the identifier of the directory comes first and the
\* children follow, one per line, in ascending order of their paths, files
\* and subdirectories in one ordering; a file is written as its path and a
\* subdirectory as ${to_name(child, keystem)}.
C13_ChildrenInPathOrder ==
  Serialized =>
    LET lines == SplitLines(ret)
        st == BlockStarts(lines)
        en == BlockEnds(lines)
        sk == sorted_keys(data)
    IN  /\ BlocksFollowKeys(lines, sk, last.keystem)
        /\ \A b \in 1..Len(sk) :
             LET cs == data[IndexOfKey(data, sk[b])].children
             IN  /\ lines[st[b] + 1] = <<TAB>> \o to_name(sk[b], last.keystem)
                 /\ en[b] - st[b] - 2 = Len(cs)
                 /\ \E o \in Orderings(cs) :
                      /\ \A j \in 1..Len(cs) :
                           lines[st[b] + 1 + j] = ChildLine(o[j], last.keystem)
                      /\ \A j \in 1..(Len(cs) - 1) :
                           ~PathLess(o[j + 1].path, o[j].path)

\* a serialized directory whose subdirectory was added before a file that
\* sorts ahead of it
C13_Witness ==
  /\ Serialized
  /\ \E i \in 1..Len(data) : \E j, k \in 1..Len(data[i].children) :
       /\ j < k
       /\ data[i].children[j].node /\ ~data[i].children[k].node
       /\ PathLess(data[i].children[k].path, data[i].children[j].path)

\* C14: my_key_cmp is a strict total order on distinct directory paths:
\* cmp(L, R) = -cmp(R, L), it is zero only for equal paths, and it is
\* transitive; a path sorts before each of its proper prefixes, and two
\* paths of which neither is a prefix of the other compare as the paths do;
\* so the sorted sequence is the same for every order of the same keys.
C14_KeyCmpTotalOrder ==
  cmp_ret # <<>> =>
    LET l == cmp_args[1]
        r == cmp_args[2]
    IN  /\ cmp_ret.lr \in {-1, 0, 1}
        /\ cmp_ret.lr = 0 - cmp_ret.rl
        /\ (cmp_ret.lr = 0) <=> (l = r)
        /\ (cmp_ret.lr < 0 /\ cmp_ret.rm < 0) => cmp_ret.lm < 0
        /\ IsProperPrefix(r, l) => cmp_ret.lr < 0
        /\ (l # r /\ ~IsProperPrefix(l, r) /\ ~IsProperPrefix(r, l)) =>
             ((cmp_ret.lr < 0) <=> PathLess(l, r))
        /\ NoDuplicates(cmp_args) =>
             \A o \in Orderings(cmp_args) : SortKeys(o) = cmp_ret.sorted

\* three distinct paths compared: a path, one of its proper prefixes below
\* the root, and a path that is a prefix of neither
C14_Witness ==
  /\ cmp_ret # <<>>
  /\ IsProperPrefix(cmp_args[2], cmp_args[1]) /\ cmp_args[2] # <<>>
  /\ cmp_args[3] # cmp_args[1]
  /\ ~IsProperPrefix(cmp_args[3], cmp_args[1])
  /\ ~IsProperPrefix(cmp_args[1], cmp_args[3])
  /\ ~IsProperPrefix(cmp_args[2], cmp_args[3])

====
